---- MODULE Spec2Model ----
(***************************************************************************)
(* Model of the pitch and harmonic analysis engine of the audio harmonic   *)
(* analyzer: FFTAnalyzer (src/fft_engine.py) and AudioCapture.analyze_chunk *)
(* (src/audio_capture.py), checked under Spec, and of the threads of       *)
(* FFTAnalyzerGUI (src/gui.py) around the capture stream, checked under    *)
(* GuiSpec.                                                                *)
(*                                                                         *)
(* Numbers.  Frequencies are exact rationals [num, den] in Hz (den > 0,     *)
(* lowest terms), so that i * sample_rate / N and the parabolic offset     *)
(* are computed without rounding.  Magnitudes and sample amplitudes are    *)
(* integers counted in units of 2^-15 * 5^-10, in which both the           *)
(* interpolation threshold 1e-10 of the code (2^5 = 32 units) and one step *)
(* of a 16-bit sample, 2^-15 (5^10 units), are whole.  Sequences are       *)
(* 1-based: the code's index k is the model's index k + 1.                 *)
(***************************************************************************)
EXTENDS Integers, Sequences, FiniteSets, TLC

VARIABLES
    pc,             \* "call": the arguments are set; "done": the call returned
    op,             \* the method called
    audio_data,     \* compute_fft / analyze_chunk: the sample block
    sample_rate,    \* FFTAnalyzer.sample_rate
    frequencies,    \* the spectrum's frequency array
    magnitudes,     \* the spectrum's magnitude array
    min_freq,       \* find_fundamental_frequency: min_freq
    max_freq,       \* find_fundamental_frequency: max_freq
    fundamental,    \* find_fundamental_frequency's result / find_harmonics' argument
    num_harmonics,  \* find_harmonics: num_harmonics
    harmonics,      \* find_harmonics' result
    frequency,      \* frequency_to_note: frequency
    note,           \* frequency_to_note's result
    chunk_size,     \* AudioCapture.chunk_size
    raised,         \* the exception the call ended with, "none" if it returned
    running,        \* FFTAnalyzerGUI.running
    worker,         \* where each process_audio thread is
    stream,         \* AudioCapture.stream: "active", "stopped" or "closed"
    mainPc,         \* where the main (tkinter) thread is
    pending         \* update_display callbacks root.after has queued

engineVars == <<pc, op, audio_data, sample_rate, frequencies, magnitudes, min_freq,
                max_freq, fundamental, num_harmonics, harmonics, frequency, note,
                chunk_size, raised>>

guiVars == <<running, worker, stream, mainPc, pending>>

vars == <<engineVars, guiVars>>

----------------------------------------------------------------------------
(* Exact rational arithmetic. *)

Abs(x) == IF x < 0 THEN -x ELSE x

RECURSIVE Gcd(_, _)
Gcd(a, b) == IF b = 0 THEN a ELSE Gcd(b, a % b)

\* n / d in lowest terms with a positive denominator (d # 0).
Rat(n, d) ==
    LET g == Gcd(Abs(n), Abs(d))
        s == IF d < 0 THEN -1 ELSE 1
    IN  [num |-> (s * n) \div g, den |-> (s * d) \div g]

R(i) == [num |-> i, den |-> 1]
Zero == R(0)

RatAdd(a, b) == Rat(a.num * b.den + b.num * a.den, a.den * b.den)
RatSub(a, b) == Rat(a.num * b.den - b.num * a.den, a.den * b.den)
RatMul(a, b) == Rat(a.num * b.num, a.den * b.den)
RatLE(a, b) == a.num * b.den <= b.num * a.den
RatLT(a, b) == a.num * b.den < b.num * a.den
RatAbs(a) == [num |-> Abs(a.num), den |-> a.den]

\* How a call ends: it returns a value, or raises an exception.
Return(v) == [raised |-> "none", value |-> v]
Raise(e, v) == [raised |-> e, value |-> v]

----------------------------------------------------------------------------
(* The numpy operations the engine uses, by what they return. *)

\* a[mask]: the entries of a at the positions where mask is TRUE, in order.
RECURSIVE BoolIndex(_, _)
BoolIndex(a, mask) ==
    IF Len(a) = 0 THEN <<>>
    ELSE IF Head(mask) THEN <<Head(a)>> \o BoolIndex(Tail(a), Tail(mask))
    ELSE BoolIndex(Tail(a), Tail(mask))

\* A plausible slip: the last of several equal maxima instead of the first.
ArgmaxLast(a) ==
    CHOOSE i \in 1..Len(a) :
        /\ \A j \in 1..Len(a) : a[j] <= a[i]
        /\ \A j \in (i + 1)..Len(a) : a[j] < a[i]

\* np.argmax: the index of the first maximum of a non-empty integer array.
Argmax(a) ==
    CHOOSE i \in 1..Len(a) :
        /\ \A j \in 1..Len(a) : a[j] <= a[i]
        /\ \A j \in 1..(i - 1) : a[j] < a[i]

\* np.argmax and np.argmin raise ValueError on an empty array.
ArgmaxRaises(a) == Len(a) = 0
ArgminRaises(a) == Len(a) = 0

\* A plausible slip: the last of several equal minima instead of the first.
ArgminRatLast(a) ==
    CHOOSE i \in 1..Len(a) :
        /\ \A j \in 1..Len(a) : RatLE(a[i], a[j])
        /\ \A j \in (i + 1)..Len(a) : RatLT(a[i], a[j])

\* np.argmin: the index of the first minimum of a non-empty array.
ArgminRat(a) ==
    CHOOSE i \in 1..Len(a) :
        /\ \A j \in 1..Len(a) : RatLE(a[i], a[j])
        /\ \A j \in 1..(i - 1) : RatLT(a[i], a[j])

\* np.clip on rationals.
Clip(x, lo, hi) == IF RatLT(x, lo) THEN lo ELSE IF RatLT(hi, x) THEN hi ELSE x

----------------------------------------------------------------------------
(* FFTAnalyzer.find_fundamental_frequency *)

\* 1e-10 in magnitude units of 2^-15 * 5^-10: 2^5.
Eps == 32

\* A plausible slip: the upper limit of the band is forgotten.
BandMaskLowerOnly(freqs, fmin, fmax) ==
    [i \in 1..Len(freqs) |-> RatLE(fmin, freqs[i])]

\* mask = (frequencies >= min_freq) & (frequencies <= max_freq)
BandMask(freqs, fmin, fmax) ==
    [i \in 1..Len(freqs) |-> RatLE(fmin, freqs[i]) /\ RatLE(freqs[i], fmax)]

\* A plausible slip: the width of the whole spectrum instead of one bin.
FreqSpacingSpan(freqs) == RatSub(freqs[Len(freqs)], freqs[1])

\* freq_spacing = frequencies[1] - frequencies[0]
FreqSpacing(freqs) == RatSub(freqs[2], freqs[1])

\* delta = np.clip(0.5 * (alpha - gamma) / denominator, -0.5, 0.5)
ParabolicDelta(alpha, gamma, denominator) ==
    Clip(Rat(alpha - gamma, 2 * denominator), Rat(-1, 2), Rat(1, 2))

\* Lines 93-120: the strongest bin of the restricted arrays, refined by
\* three-point parabolic interpolation when it is not at their edge.
PeakFrequency(freqs, valid_freqs, valid_mags) ==
    IF ArgmaxRaises(valid_mags) THEN Raise("ValueError", Zero)
    ELSE
    LET peak_idx == Argmax(valid_mags)
        raw == valid_freqs[peak_idx]
    IN  IF peak_idx > 1 /\ peak_idx < Len(valid_mags)
        THEN
        LET alpha == valid_mags[peak_idx - 1]
            beta == valid_mags[peak_idx]
            gamma == valid_mags[peak_idx + 1]
            denominator == alpha - 2 * beta + gamma
        IN  IF Abs(denominator) > Eps /\ Len(freqs) > 1
            THEN Return(RatAdd(raw, RatMul(ParabolicDelta(alpha, gamma, denominator),
                                           FreqSpacing(freqs))))
            ELSE Return(raw)
        ELSE Return(raw)

\* A plausible slip: the check for an empty restricted range is missing.
FindFundamentalFrequencyUnchecked(freqs, mags, fmin, fmax) ==
    LET mask == BandMask(freqs, fmin, fmax)
    IN  PeakFrequency(freqs, BoolIndex(freqs, mask), BoolIndex(mags, mask))

FindFundamentalFrequency(freqs, mags, fmin, fmax) ==
    LET mask == BandMask(freqs, fmin, fmax)
        valid_freqs == BoolIndex(freqs, mask)
        valid_mags == BoolIndex(mags, mask)
    IN  IF Len(valid_mags) = 0 THEN Return(Zero)
        ELSE PeakFrequency(freqs, valid_freqs, valid_mags)

----------------------------------------------------------------------------
(* FFTAnalyzer.find_harmonics *)

\* A plausible slip: range(1, num_harmonics), one harmonic short.
HarmonicNumbersShort(n) == [i \in 1..(n - 1) |-> i]

\* range(1, num_harmonics + 1)
HarmonicNumbers(n) == [i \in 1..n |-> i]

\* A plausible slip: the expected frequency is offset, not scaled.
ExpectedFreqSum(fund, i) == RatAdd(fund, R(i))

\* expected_freq = fundamental * i
ExpectedFreq(fund, i) == RatMul(fund, R(i))

\* np.abs(frequencies - expected_freq)
AbsDiff(freqs, expected_freq) ==
    [j \in 1..Len(freqs) |-> RatAbs(RatSub(freqs[j], expected_freq))]

\* (i, actual_freq, magnitude) for harmonic number i
Harmonic(freqs, mags, fund, i) ==
    LET expected_freq == ExpectedFreq(fund, i)
        idx == ArgminRat(AbsDiff(freqs, expected_freq))
    IN  <<i, freqs[idx], mags[idx]>>

FindHarmonics(freqs, mags, fund, n) ==
    LET numbers == HarmonicNumbers(n)
    IN  IF Len(numbers) > 0 /\ ArgminRaises(freqs)
        THEN Raise("ValueError", <<>>)
        ELSE Return([k \in 1..Len(numbers) |-> Harmonic(freqs, mags, fund, numbers[k])])

----------------------------------------------------------------------------
(* FFTAnalyzer.compute_fft *)

\* The magnitudes an FFT may produce for a block that is not all zero, in
\* magnitude units: zero, the interpolation threshold, three times it.
MagValues == {0, Eps, 3 * Eps}

RatInv(a) == Rat(a.den, a.num)

\* A plausible slip: the bins of the spectrum counted as N // 2.
RfftLenShort(n) == n \div 2

\* The number of bins np.fft.rfft and np.fft.rfftfreq return for n samples.
RfftLen(n) == n \div 2 + 1

\* np.fft.rfftfreq(n, d): val = 1.0 / (n * d); arange(0, n // 2 + 1) * val
RfftFreq(n, d) ==
    LET val == RatInv(RatMul(R(n), d))
    IN  [i \in 1..RfftLen(n) |-> RatMul(R(i - 1), val)]

\* audio_data * np.hanning(N), where the window is known exactly:
\* hanning(1) = [1], hanning(2) = [0, 0], hanning(3) = [0, 1, 0]; a longer
\* window is 0 at both ends and positive inside.
WindowIsZero(audio, i) == Len(audio) > 1 /\ (i = 1 \/ i = Len(audio))
WindowedIsZero(audio) ==
    \A i \in 1..Len(audio) : WindowIsZero(audio, i) \/ audio[i] = 0

\* np.abs(np.fft.rfft(windowed_data)): the possible magnitude arrays.  The
\* transform of an all-zero block is all zero; blocks of up to 3 samples
\* are transformed exactly; for a longer block every array of non-negative
\* magnitudes of the right length is possible.
RfftMagnitudes(audio) ==
    LET n == Len(audio)
    IN  IF WindowedIsZero(audio) THEN {[i \in 1..RfftLen(n) |-> 0]}
        ELSE IF n = 1 THEN {<<Abs(audio[1])>>}
        ELSE IF n = 3 THEN {<<Abs(audio[2]), Abs(audio[2])>>}
        ELSE [1..RfftLen(n) -> MagValues]

\* The frequency array compute_fft returns for a block, or the ValueError of
\* np.fft.rfft on an empty block.
ComputeFFTFrequencies(audio, rate) ==
    IF Len(audio) = 0 THEN Raise("ValueError", <<>>)
    ELSE Return(RfftFreq(Len(audio), RatInv(R(rate))))

----------------------------------------------------------------------------
(* FFTAnalyzer.frequency_to_note *)

notes == <<"C", "C#", "D", "D#", "E", "F", "F#", "G", "G#", "A", "A#", "B">>

\* The least semitone offset from A4 the table below covers.
HMin == -38

\* 440 * 2^((2h + 1) / 24) in thousandths of a Hz, rounded down, for
\* h = HMin - 1, HMin, ...: entry i is the frequency at which
\* 12 * log2(frequency / 440) passes HMin - 2 + i + 1/2, so the offsets
\* rounding to h lie between entries h - HMin + 1 and h - HMin + 2.
SemitoneBounds ==
    <<47604, 50435, 53434, 56611, 59977, 63544, 67322, 71326,
      75567, 80060, 84821, 89865, 95209, 100870, 106868, 113223,
      119955, 127088, 134645, 142652, 151134, 160121, 169643, 179730,
      190418, 201740, 213737, 226446, 239911, 254177, 269291, 285304,
      302269, 320243, 339286, 359461, 380836, 403481, 427474, 452892,
      479823, 508355, 538583, 570609, 604539, 640487, 678572, 718922,
      761672, 806963, 854948, 905785, 959646, 1016710, 1077167, 1141218,
      1209079, 1280974, 1357145, 1437845, 1523344, 1613927, 1709896, 1811571,
      1919293, 2033420>>

\* int(np.round(12 * np.log2(frequency / A4))) with A4 = 440.0, for a
\* frequency between the first and the last entry of the table.
HalfSteps(f) ==
    HMin - 1 + Cardinality({i \in 1..Len(SemitoneBounds) :
                               SemitoneBounds[i] * f.den < 1000 * f.num})

\* A plausible slip: division truncating toward zero.
TruncDiv(a, b) == IF a < 0 THEN -((-a) \div b) ELSE a \div b

\* Python's a // b for b > 0: the floor of the quotient.
FloorDiv(a, b) == a \div b

\* Python's a % b for b > 0: never negative.
PyMod(a, b) == a % b

\* A plausible slip: zero is taken for a valid frequency.
IsInvalidFrequencyStrict(f) == RatLT(f, Zero)

\* frequency <= 0
IsInvalidFrequency(f) == RatLE(f, Zero)

\* The note is <<"N/A">> or <<pitch class, octave>>, the two parts of
\* f"{notes[note_idx]}{octave}".
FrequencyToNote(f) ==
    IF IsInvalidFrequency(f) THEN <<"N/A">>
    ELSE
    LET half_steps == HalfSteps(f)
        octave == 4 + FloorDiv(half_steps, 12)
        note_idx == PyMod(half_steps + 9, 12)
    IN  IF note_idx < 0
        THEN <<notes[note_idx + 12 + 1], octave - 1>>
        ELSE <<notes[note_idx + 1], octave>>

----------------------------------------------------------------------------
(* AudioCapture *)

\* One step of a 16-bit sample, 2^-15, in magnitude units: 5^10.
SampleUnit == 9765625

\* The defaults analyze_chunk leaves to the analyzer.
DefaultMinFreq == 50
DefaultMaxFreq == 2000
DefaultNumHarmonics == 5

\* read_chunk: np.frombuffer(raw_data, dtype=np.int16).astype(np.float32) / 2**15
ReadChunk(raw) == [i \in 1..Len(raw) |-> raw[i] * SampleUnit]

\* The first exception of a sequence of calls, "none" if none raised.
FirstRaised(calls) ==
    IF \A i \in 1..Len(calls) : calls[i] = "none" THEN "none"
    ELSE calls[CHOOSE i \in 1..Len(calls) :
                  calls[i] # "none" /\ \A j \in 1..(i - 1) : calls[j] = "none"]

----------------------------------------------------------------------------
(* The calls the model makes. *)

MaxN == 4               \* compute_fft: the longest sample block
MaxFreqVal == 3         \* the highest bin frequency of a spectrum passed in, in Hz
MaxHarmonics == 3       \* find_harmonics: the largest num_harmonics passed in

SampleValues == {-Eps, 0, 3 * Eps}
RawSamples == {-1, 0}
SampleRates == {2640, 44100}
ChunkSizes == {1, 3, 6}

RECURSIVE SetToSeq(_)
SetToSeq(S) ==
    IF S = {} THEN <<>>
    ELSE LET m == CHOOSE x \in S : \A y \in S : x <= y
         IN  <<R(m)>> \o SetToSeq(S \ {m})

\* Frequency arrays: strictly increasing whole numbers of Hz.  The arrays
\* compute_fft returns (0, df, 2 df, ...) are among them.
Spectra == {SetToSeq(S) : S \in SUBSET (0..MaxFreqVal)}

BandValues == {R(i) : i \in -1..(MaxFreqVal + 1)}

\* Fundamentals passed to find_harmonics: the sentinel 0, half and whole
\* numbers of Hz, one below zero and one above the spectrum.
FundValues == {Rat(i, 2) : i \in -1..(MaxFreqVal + 2)}

\* Frequencies passed to frequency_to_note: the whole numbers of Hz the
\* table covers, and invalid ones.
NoteInputs ==
    {R(f) : f \in (SemitoneBounds[1] \div 1000 + 1)
                  ..(SemitoneBounds[Len(SemitoneBounds)] \div 1000)}
    \cup {R(0), R(-1), R(-440)}

----------------------------------------------------------------------------
(* FFTAnalyzerGUI: the main thread and its process_audio threads. *)

MaxThreads == 3         \* process_audio threads alive or finished at one time
MaxPending == 2         \* update_display callbacks queued at one time

Workers == 1..MaxThreads

\* A worker is "unborn" (no thread yet), at the "test" of while self.running,
\* past it and "calling" analyze_chunk, "reading" inside stream.read, at the
\* "handoff" (root.after) with its results, "exited" (the loop ended),
\* "crashed" (stream.read raised) or "killed" (the process ended).
Looping == {"test", "calling", "reading", "handoff"}

\* FFTAnalyzerGUI.__init__: AudioCapture() has opened and started the
\* stream, running is False, no thread exists.
GuiInit ==
    /\ running = FALSE
    /\ worker = [w \in Workers |-> "unborn"]
    /\ stream = "active"
    /\ mainPc = "mainloop"
    /\ pending = 0

Init ==
    /\ GuiInit
    /\ pc = "call"
    /\ harmonics = <<>>
    /\ note = <<>>
    /\ raised = "none"
    /\ op \in {"compute_fft", "find_fundamental_frequency", "find_harmonics",
               "frequency_to_note", "analyze_chunk"}
    /\ \/ /\ op = "compute_fft"
          /\ sample_rate \in SampleRates
          /\ \E n \in 0..MaxN : audio_data \in [1..n -> SampleValues]
          /\ frequencies = <<>> /\ magnitudes = <<>>
          /\ min_freq = Zero /\ max_freq = Zero /\ fundamental = Zero
          /\ num_harmonics = 0 /\ frequency = Zero /\ chunk_size = 0
       \/ /\ op = "find_fundamental_frequency"
          /\ frequencies \in Spectra
          /\ magnitudes \in [1..Len(frequencies) -> MagValues]
          /\ min_freq \in BandValues
          /\ max_freq \in BandValues
          /\ audio_data = <<>> /\ sample_rate = 0 /\ fundamental = Zero
          /\ num_harmonics = 0 /\ frequency = Zero /\ chunk_size = 0
       \/ /\ op = "find_harmonics"
          /\ frequencies \in Spectra
          /\ magnitudes \in [1..Len(frequencies) -> MagValues]
          /\ fundamental \in FundValues
          /\ num_harmonics \in 0..MaxHarmonics
          /\ audio_data = <<>> /\ sample_rate = 0
          /\ min_freq = Zero /\ max_freq = Zero
          /\ frequency = Zero /\ chunk_size = 0
       \/ /\ op = "frequency_to_note"
          /\ frequency \in NoteInputs
          /\ audio_data = <<>> /\ sample_rate = 0
          /\ frequencies = <<>> /\ magnitudes = <<>>
          /\ min_freq = Zero /\ max_freq = Zero /\ fundamental = Zero
          /\ num_harmonics = 0 /\ chunk_size = 0
       \/ /\ op = "analyze_chunk"
          /\ sample_rate \in SampleRates
          /\ chunk_size \in ChunkSizes
          /\ audio_data = <<>>
          /\ frequencies = <<>> /\ magnitudes = <<>>
          /\ min_freq = Zero /\ max_freq = Zero /\ fundamental = Zero
          /\ num_harmonics = 0 /\ frequency = Zero

ComputeFFT ==
    /\ pc = "call" /\ op = "compute_fft"
    /\ LET r == ComputeFFTFrequencies(audio_data, sample_rate)
       IN  /\ raised' = r.raised
           /\ frequencies' = r.value
           /\ magnitudes' \in (IF r.raised = "none"
                               THEN RfftMagnitudes(audio_data) ELSE {<<>>})
    /\ pc' = "done"
    /\ UNCHANGED guiVars
    /\ UNCHANGED <<op, audio_data, sample_rate, min_freq, max_freq, fundamental,
                   num_harmonics, harmonics, frequency, note, chunk_size>>

FindFundamental ==
    /\ pc = "call" /\ op = "find_fundamental_frequency"
    /\ LET r == FindFundamentalFrequency(frequencies, magnitudes, min_freq, max_freq)
       IN  raised' = r.raised /\ fundamental' = r.value
    /\ pc' = "done"
    /\ UNCHANGED guiVars
    /\ UNCHANGED <<op, audio_data, sample_rate, frequencies, magnitudes, min_freq,
                   max_freq, num_harmonics, harmonics, frequency, note, chunk_size>>

FindHarmonicsCall ==
    /\ pc = "call" /\ op = "find_harmonics"
    /\ LET r == FindHarmonics(frequencies, magnitudes, fundamental, num_harmonics)
       IN  raised' = r.raised /\ harmonics' = r.value
    /\ pc' = "done"
    /\ UNCHANGED guiVars
    /\ UNCHANGED <<op, audio_data, sample_rate, frequencies, magnitudes, min_freq,
                   max_freq, fundamental, num_harmonics, frequency, note, chunk_size>>

FrequencyToNoteCall ==
    /\ pc = "call" /\ op = "frequency_to_note"
    /\ note' = FrequencyToNote(frequency)
    /\ raised' = "none"
    /\ pc' = "done"
    /\ UNCHANGED guiVars
    /\ UNCHANGED <<op, audio_data, sample_rate, frequencies, magnitudes, min_freq,
                   max_freq, fundamental, num_harmonics, harmonics, frequency,
                   chunk_size>>

\* analyze_chunk: read_chunk, compute_fft, find_fundamental_frequency,
\* frequency_to_note and find_harmonics in turn, with the analyzer's defaults.
AnalyzeChunk ==
    /\ pc = "call" /\ op = "analyze_chunk"
    /\ \E raw \in [1..chunk_size -> RawSamples] :
         LET audio == ReadChunk(raw)
             f == ComputeFFTFrequencies(audio, sample_rate)
         IN  \E mags \in (IF f.raised = "none" THEN RfftMagnitudes(audio) ELSE {<<>>}) :
               LET fund == FindFundamentalFrequency(
                               f.value, mags, R(DefaultMinFreq), R(DefaultMaxFreq))
                   harm == FindHarmonics(f.value, mags, fund.value, DefaultNumHarmonics)
               IN  /\ audio_data' = audio
                   /\ frequencies' = f.value
                   /\ magnitudes' = mags
                   /\ min_freq' = R(DefaultMinFreq)
                   /\ max_freq' = R(DefaultMaxFreq)
                   /\ fundamental' = fund.value
                   /\ frequency' = fund.value
                   /\ note' = FrequencyToNote(fund.value)
                   /\ num_harmonics' = DefaultNumHarmonics
                   /\ harmonics' = harm.value
                   /\ raised' = FirstRaised(<<f.raised, fund.raised, harm.raised>>)
    /\ pc' = "done"
    /\ UNCHANGED guiVars
    /\ UNCHANGED <<op, sample_rate, chunk_size>>

Next ==
    \/ ComputeFFT
    \/ FindFundamental
    \/ FindHarmonicsCall
    \/ FrequencyToNoteCall
    \/ AnalyzeChunk

Spec == Init /\ [][Next]_vars

----------------------------------------------------------------------------
(* FFTAnalyzerGUI under its threads.  Each action is one step between two  *)
(* points at which another thread may run.  What a chunk holds and what    *)
(* update_display draws play no part here.                                 *)

FreeWorkers == {w \in Workers : worker[w] \in {"unborn", "exited", "crashed"}}

\* toggle_analysis, run by the main loop for a click on Start / Stop: when
\* not running it sets running and starts a new process_audio thread, else
\* it clears running.  It waits for no thread.
ToggleAnalysis ==
    /\ mainPc = "mainloop"
    /\ IF ~running
       THEN /\ FreeWorkers # {}
            /\ running' = TRUE
            /\ worker' = [worker EXCEPT
                             ![CHOOSE w \in FreeWorkers : \A v \in FreeWorkers : w <= v] = "test"]
       ELSE /\ running' = FALSE
            /\ UNCHANGED worker
    /\ UNCHANGED <<stream, mainPc, pending, engineVars>>

\* process_audio: while self.running
WorkerTest(w) ==
    /\ worker[w] = "test"
    /\ worker' = [worker EXCEPT ![w] = IF running THEN "calling" ELSE "exited"]
    /\ UNCHANGED <<running, stream, mainPc, pending, engineVars>>

\* analyze_chunk -> read_chunk -> self.stream.read(...): the call blocks on
\* an active stream and raises on a stopped or closed one, which ends the
\* thread (process_audio catches nothing).
WorkerCallRead(w) ==
    /\ worker[w] = "calling"
    /\ worker' = [worker EXCEPT ![w] = IF stream = "active" THEN "reading" ELSE "crashed"]
    /\ UNCHANGED <<running, stream, mainPc, pending, engineVars>>

\* stream.read returns and analyze_chunk computes its results.  A read that
\* the stream was stopped or closed under may return or raise.
WorkerReadReturns(w) ==
    /\ worker[w] = "reading"
    /\ \E next \in (IF stream = "active" THEN {"handoff"} ELSE {"handoff", "crashed"}) :
          worker' = [worker EXCEPT ![w] = next]
    /\ UNCHANGED <<running, stream, mainPc, pending, engineVars>>

\* self.root.after(0, self.update_display, results): the callback joins the
\* main loop's queue and the loop goes back to its test.
WorkerHandoff(w) ==
    /\ worker[w] = "handoff"
    /\ pending < MaxPending
    /\ pending' = pending + 1
    /\ worker' = [worker EXCEPT ![w] = "test"]
    /\ UNCHANGED <<running, stream, mainPc, engineVars>>

\* update_display, run by the main loop for one queued callback.
UpdateDisplay ==
    /\ mainPc = "mainloop"
    /\ pending > 0
    /\ pending' = pending - 1
    /\ UNCHANGED <<running, worker, stream, mainPc, engineVars>>

\* close, run by the main loop for WM_DELETE_WINDOW: self.running = False
CloseClearRunning ==
    /\ mainPc = "mainloop"
    /\ running' = FALSE
    /\ mainPc' = "close_capture"
    /\ UNCHANGED <<worker, stream, pending, engineVars>>

\* close -> AudioCapture.close: self.stream.stop_stream()
CloseStopStream ==
    /\ mainPc = "close_capture"
    /\ stream' = "stopped"
    /\ mainPc' = "close_stream"
    /\ UNCHANGED <<running, worker, pending, engineVars>>

\* close -> AudioCapture.close: self.stream.close(); self.audio.terminate()
CloseCloseStream ==
    /\ mainPc = "close_stream"
    /\ stream' = "closed"
    /\ mainPc' = "quit"
    /\ UNCHANGED <<running, worker, pending, engineVars>>

\* close: self.root.quit(), after which root.mainloop() returns.
CloseQuit ==
    /\ mainPc = "quit"
    /\ mainPc' = "after_mainloop"
    /\ UNCHANGED <<running, worker, stream, pending, engineVars>>

\* The script ends after root.mainloop(): the process exits and takes its
\* daemon threads with it.
ProcessExit ==
    /\ mainPc = "after_mainloop"
    /\ mainPc' = "exited"
    /\ worker' = [w \in Workers |-> IF worker[w] \in Looping THEN "killed" ELSE worker[w]]
    /\ UNCHANGED <<running, stream, pending, engineVars>>

GuiNext ==
    \/ ToggleAnalysis
    \/ UpdateDisplay
    \/ CloseClearRunning
    \/ CloseStopStream
    \/ CloseCloseStream
    \/ CloseQuit
    \/ ProcessExit
    \/ \E w \in Workers :
          \/ WorkerTest(w)
          \/ WorkerCallRead(w)
          \/ WorkerReadReturns(w)
          \/ WorkerHandoff(w)

\* No call of the engine is in progress when the window opens.
GuiSpecInit ==
    /\ GuiInit
    /\ pc = "idle" /\ op = "none"
    /\ audio_data = <<>> /\ sample_rate = 0
    /\ frequencies = <<>> /\ magnitudes = <<>>
    /\ min_freq = Zero /\ max_freq = Zero /\ fundamental = Zero
    /\ num_harmonics = 0 /\ harmonics = <<>>
    /\ frequency = Zero /\ note = <<>>
    /\ chunk_size = 0 /\ raised = "none"

GuiSpec == GuiSpecInit /\ [][GuiNext]_vars

----------------------------------------------------------------------------
(* Properties of find_fundamental_frequency.  The reference below is stated *)
(* on the bins of the whole spectrum, not on the restricted arrays.        *)

Done(ops) == pc = "done" /\ op \in ops

DetectorRan == Done({"find_fundamental_frequency", "analyze_chunk"})

InBand(i) == RatLE(min_freq, frequencies[i]) /\ RatLE(frequencies[i], max_freq)
BandBins == {i \in 1..Len(frequencies) : InBand(i)}

StartsAtZero == Len(frequencies) > 0 /\ frequencies[1] = Zero
StrictlyIncreasing ==
    \A i \in 1..(Len(frequencies) - 1) : RatLT(frequencies[i], frequencies[i + 1])
UniformFromZero ==
    /\ StartsAtZero
    /\ \A i \in 1..(Len(frequencies) - 1) :
          RatSub(frequencies[i + 1], frequencies[i]) = RatSub(frequencies[2], frequencies[1])

\* The lowest-index bin of maximum magnitude among the bins in the band.
PeakBin ==
    CHOOSE k \in BandBins :
        \A j \in BandBins :
            /\ magnitudes[j] <= magnitudes[k]
            /\ j < k => magnitudes[j] < magnitudes[k]

PeakAtEdge ==
    \/ \A j \in BandBins : PeakBin <= j
    \/ \A j \in BandBins : j <= PeakBin

RefDenom == magnitudes[PeakBin - 1] - 2 * magnitudes[PeakBin] + magnitudes[PeakBin + 1]

Interpolates == BandBins # {} /\ ~PeakAtEdge /\ Abs(RefDenom) > Eps

Half == [num |-> 1, den |-> 2]
MinusHalf == [num |-> -1, den |-> 2]
BinWidth == RatSub(frequencies[2], frequencies[1])

Clamp(x) == IF RatLT(x, MinusHalf) THEN MinusHalf ELSE IF RatLT(Half, x) THEN Half ELSE x

RefFundamental ==
    IF PeakAtEdge THEN frequencies[PeakBin]
    ELSE IF Abs(RefDenom) <= Eps THEN frequencies[PeakBin]
    ELSE RatAdd(frequencies[PeakBin],
                RatMul(Clamp(Rat(magnitudes[PeakBin - 1] - magnitudes[PeakBin + 1],
                                 2 * RefDenom)),
                       BinWidth))

\* C1: find_fundamental_frequency returns exactly 0, without raising,
\* whenever no bin of the spectrum lies in [min_freq, max_freq]: min_freq
\* above every frequency, max_freq below every frequency, min_freq > max_freq,
\* or an empty spectrum.
C1_EmptyBandReturnsZero ==
    (DetectorRan /\ BandBins = {}) => (fundamental = Zero /\ raised = "none")

\* A non-empty spectrum all of whose bins lie below a band with
\* min_freq <= max_freq, for which the detector has returned 0.
C1_Witness ==
    /\ Done({"find_fundamental_frequency"})
    /\ Len(frequencies) > 1
    /\ RatLE(min_freq, max_freq)
    /\ \A i \in 1..Len(frequencies) : RatLT(frequencies[i], min_freq)
    /\ \E i \in 1..Len(magnitudes) : magnitudes[i] > 0
    /\ fundamental = Zero

\* C2: for a spectrum whose frequencies start at 0 and are uniformly spaced,
\* the value find_fundamental_frequency returns is 0 or lies within
\* [min_freq, max_freq]: the parabolic correction never moves an in-band peak
\* out of the band.
C2_ResultZeroOrInBand ==
    (DetectorRan /\ UniformFromZero) =>
        \/ fundamental = Zero
        \/ RatLE(min_freq, fundamental) /\ RatLE(fundamental, max_freq)

\* An interpolated peak, moved the full half bin, whose upper neighbour is
\* the last bin of the band.
C2_Witness ==
    /\ Done({"find_fundamental_frequency"})
    /\ UniformFromZero
    /\ Interpolates
    /\ frequencies[PeakBin + 1] = max_freq
    /\ fundamental = RatAdd(frequencies[PeakBin], RatMul(Half, BinWidth))

\* C3: whenever interpolation is applied (the peak is inside the restricted
\* range and |alpha - 2 beta + gamma| > 1e-10), the value returned differs
\* from the raw frequency of the peak bin by at most half a bin width.
C3_OffsetWithinHalfBin ==
    (DetectorRan /\ Interpolates) =>
        RatLE(RatAbs(RatSub(fundamental, frequencies[PeakBin])),
              RatMul(Half, BinWidth))

\* An interpolation with the smallest denominator above the threshold the
\* magnitudes allow, which moves the peak up.
C3_Witness ==
    /\ Done({"find_fundamental_frequency"})
    /\ Interpolates
    /\ Abs(RefDenom) = 2 * Eps
    /\ RatLT(frequencies[PeakBin], fundamental)

\* C10: find_fundamental_frequency agrees with the reference: the raw
\* frequency of the lowest-index strongest in-band bin when that bin is the
\* first or last of the band or |alpha - 2 beta + gamma| <= 1e-10, and
\* otherwise that frequency plus clamp(0.5 (alpha - gamma) / (alpha - 2 beta
\* + gamma), -0.5, 0.5) times frequencies[1] - frequencies[0].
C10_AgreesWithReference ==
    (DetectorRan /\ BandBins # {}) =>
        (fundamental = RefFundamental /\ raised = "none")

\* Two in-band bins share the maximum, the first of them is inside the
\* band, and the denominator is exactly at the threshold: the raw frequency
\* of the first is returned.
C10_Witness ==
    /\ Done({"find_fundamental_frequency"})
    /\ BandBins # {}
    /\ ~PeakAtEdge
    /\ magnitudes[PeakBin + 1] = magnitudes[PeakBin]
    /\ Abs(RefDenom) = Eps
    /\ fundamental = frequencies[PeakBin]

----------------------------------------------------------------------------
(* Properties of find_harmonics. *)

LocatorRan == Done({"find_harmonics", "analyze_chunk"})

\* C4: for a non-empty spectrum, any fundamental (0 included) and any
\* count >= 0, find_harmonics returns exactly count entries, numbered
\* 1, 2, ..., count in order, and the frequency and the magnitude of each
\* entry come from one and the same bin of the input arrays.
C4_CountEntriesInOrder ==
    (LocatorRan /\ Len(frequencies) > 0) =>
        /\ raised = "none"
        /\ Len(harmonics) = num_harmonics
        /\ \A i \in 1..Len(harmonics) :
              /\ harmonics[i][1] = i
              /\ \E j \in 1..Len(frequencies) :
                    /\ harmonics[i][2] = frequencies[j]
                    /\ harmonics[i][3] = magnitudes[j]

\* Three harmonics of a fundamental above 0 that land on three bins.
C4_Witness ==
    /\ Done({"find_harmonics"})
    /\ fundamental # Zero
    /\ Len(harmonics) = 3
    /\ harmonics[1][2] # harmonics[2][2]
    /\ harmonics[2][2] # harmonics[3][2]

\* C5: when fundamental = 0 and the frequencies start at 0 and increase
\* strictly, every entry find_harmonics returns is bin 0's: the list is not
\* empty and nothing is raised.  analyze_chunk returns these entries
\* whenever the detector returns 0.
C5_ZeroFundamentalIsBinZero ==
    (LocatorRan /\ fundamental = Zero /\ StartsAtZero /\ StrictlyIncreasing) =>
        /\ raised = "none"
        /\ Len(harmonics) = num_harmonics
        /\ \A i \in 1..Len(harmonics) :
              harmonics[i] = <<i, frequencies[1], magnitudes[1]>>

\* analyze_chunk on a chunk whose detector found nothing: five entries, all
\* of bin 0, where bin 0 is neither the only bin nor silent.
C5_Witness ==
    /\ Done({"analyze_chunk"})
    /\ fundamental = Zero
    /\ Len(frequencies) > 1
    /\ magnitudes[1] > 0
    /\ magnitudes[2] > magnitudes[1]
    /\ Len(harmonics) = DefaultNumHarmonics
    /\ harmonics[DefaultNumHarmonics] = <<DefaultNumHarmonics, Zero, magnitudes[1]>>

----------------------------------------------------------------------------
(* Properties of frequency_to_note. *)

MapperRan == Done({"frequency_to_note", "analyze_chunk"})

PitchClasses == <<"C", "C#", "D", "D#", "E", "F", "F#", "G", "G#", "A", "A#", "B">>

\* The index in 0..11 congruent to h + 9 modulo 12.
PitchIndex(h) == CHOOSE p \in 0..11 : \E q \in -12..12 : h + 9 = 12 * q + p

\* The floor of h / 12: the q with 12 q <= h < 12 q + 12.
FloorTwelfth(h) == CHOOSE q \in -12..12 : 12 * q <= h /\ h < 12 * q + 12

\* C6: for a frequency > 0 with rounded semitone offset h, frequency_to_note
\* returns the pitch class at index (h + 9) mod 12, a non-negative modulus,
\* followed by the octave 4 + floor(h / 12), a floor and not a truncation,
\* with no further adjustment: 440 Hz is A4, 880 Hz A5, 220 Hz A3, 466 Hz
\* A#4, and h = -1 (415 Hz) has octave 3.
C6_PitchClassAndOctave ==
    (MapperRan /\ RatLT(Zero, frequency)) =>
        /\ note = <<PitchClasses[PitchIndex(HalfSteps(frequency)) + 1],
                    4 + FloorTwelfth(HalfSteps(frequency))>>
        /\ frequency = R(440) => note = <<"A", 4>>
        /\ frequency = R(880) => note = <<"A", 5>>
        /\ frequency = R(220) => note = <<"A", 3>>
        /\ frequency = R(466) => note = <<"A#", 4>>
        /\ frequency = R(415) => note = <<"G#", 3>>

\* One semitone below A4: a negative offset, whose octave is 3.
C6_Witness ==
    /\ Done({"frequency_to_note"})
    /\ frequency = R(415)
    /\ HalfSteps(frequency) = -1
    /\ note = <<"G#", 3>>

\* The name of the pitch h semitones from A4 in scientific pitch notation:
\* the octave number goes up at each C, so it is 4 + floor((h + 9) / 12).
ScientificPitch(h) ==
    <<PitchClasses[PitchIndex(h) + 1], 4 + FloorTwelfth(h + 9)>>

\* C7: frequency_to_note returns the scientific-pitch-notation name of the
\* pitch h semitones from A4, whose octave number increases at each C
\* (h = 3 is C5, h = -9 is C4).
C7_ScientificPitchName ==
    (MapperRan /\ RatLT(Zero, frequency)) =>
        note = ScientificPitch(HalfSteps(frequency))

\* C8: frequency_to_note returns "N/A" for every frequency <= 0 and a pitch
\* class with an octave, never "N/A" and never an error, for every
\* frequency > 0; in analyze_chunk the frequency it is given is the detected
\* fundamental, so the note is "N/A" exactly when the fundamental is <= 0.
C8_SentinelIffNotPositive ==
    MapperRan =>
        /\ RatLE(frequency, Zero) => note = <<"N/A">>
        /\ RatLT(Zero, frequency) =>
              /\ raised = "none"
              /\ Len(note) = 2
              /\ \E p \in 1..12 : note[1] = PitchClasses[p]
              /\ note[2] \in Int
        /\ op = "analyze_chunk" =>
              /\ frequency = fundamental
              /\ (note = <<"N/A">>) <=> RatLE(fundamental, Zero)

\* analyze_chunk on a chunk with no bin in the band: the fundamental is 0
\* and the note is the sentinel.
C8_Witness ==
    /\ Done({"analyze_chunk"})
    /\ fundamental = Zero
    /\ note = <<"N/A">>

----------------------------------------------------------------------------
(* Properties of compute_fft. *)

EstimatorRan == Done({"compute_fft", "analyze_chunk"})

\* C9: for a block of N >= 1 samples of any content, compute_fft returns
\* frequency and magnitude arrays of length floor(N / 2) + 1, frequency i
\* being i * sample_rate / N whatever the samples: they start at 0 and
\* increase strictly by sample_rate / N.  Blocks of 1, 2 and 3 samples are
\* no exception.
C9_SpectrumShape ==
    (EstimatorRan /\ Len(audio_data) >= 1) =>
        /\ raised = "none"
        /\ Len(frequencies) = Len(audio_data) \div 2 + 1
        /\ Len(magnitudes) = Len(frequencies)
        /\ \A i \in 1..Len(frequencies) :
              frequencies[i] = Rat((i - 1) * sample_rate, Len(audio_data))
        /\ StartsAtZero
        /\ StrictlyIncreasing
        /\ \A i \in 1..(Len(frequencies) - 1) :
              RatSub(frequencies[i + 1], frequencies[i]) = Rat(sample_rate, Len(audio_data))

\* A block of three samples, the middle one not zero: two bins, the second
\* at a third of the sample rate.
C9_Witness ==
    /\ Done({"compute_fft"})
    /\ Len(audio_data) = 3
    /\ audio_data[2] < 0
    /\ Len(frequencies) = 2
    /\ frequencies[2] = Rat(sample_rate, 3)
    /\ magnitudes = <<-audio_data[2], -audio_data[2]>>

----------------------------------------------------------------------------
(* The bin find_harmonics picks for each harmonic. *)

\* |frequencies[j] - fundamental * i|
Distance(j, i) == RatAbs(RatSub(frequencies[j], RatMul(fundamental, R(i))))

\* Bin j is nearest to the i-th multiple of the fundamental, and no bin of
\* lower index is as near.
NearestLowest(j, i) ==
    /\ \A k \in 1..Len(frequencies) : RatLE(Distance(j, i), Distance(k, i))
    /\ \A k \in 1..(j - 1) : RatLT(Distance(j, i), Distance(k, i))

\* C11: for each harmonic number i in 1..count, find_harmonics emits
\* (i, frequencies[j], magnitudes[j]) for the bin j that minimises
\* |frequencies[j] - fundamental * i| over the whole spectrum; of two bins
\* equally near, j is the lower; and when fundamental * i exceeds the highest
\* bin frequency, j is the last bin.
C11_NearestBinLowestOnTie ==
    (LocatorRan /\ Len(frequencies) > 0) =>
        /\ Len(harmonics) = num_harmonics
        /\ \A i \in 1..Len(harmonics) :
              \E j \in 1..Len(frequencies) :
                  /\ harmonics[i] = <<i, frequencies[j], magnitudes[j]>>
                  /\ NearestLowest(j, i)
                  /\ RatLT(frequencies[Len(frequencies)], RatMul(fundamental, R(i)))
                        => j = Len(frequencies)

\* The first harmonic lies exactly midway between bins 0 and 1, which differ
\* in magnitude, and is given bin 0; the last lies above the spectrum and is
\* given the last bin.
C11_Witness ==
    /\ Done({"find_harmonics"})
    /\ Len(frequencies) >= 3
    /\ num_harmonics >= 2
    /\ Distance(1, 1) = Distance(2, 1)
    /\ magnitudes[1] # magnitudes[2]
    /\ harmonics[1] = <<1, frequencies[1], magnitudes[1]>>
    /\ RatLT(frequencies[Len(frequencies)], RatMul(fundamental, R(num_harmonics)))
    /\ harmonics[num_harmonics] =
          <<num_harmonics, frequencies[Len(frequencies)], magnitudes[Len(frequencies)]>>

----------------------------------------------------------------------------
(* Properties of the GUI's threads, under GuiSpec. *)

LoopingWorkers == {w \in Workers : worker[w] \in Looping}
ReadingWorkers == {w \in Workers : worker[w] = "reading"}

\* C12: under any sequence of Start / Stop clicks interleaved with the
\* worker threads' steps, at most one process_audio loop is active at a
\* time, so that no two threads are inside a read of the capture stream at
\* once.
C12_AtMostOneLoop ==
    /\ Cardinality(LoopingWorkers) <= 1
    /\ Cardinality(ReadingWorkers) <= 1

\* C13: once close() has stopped and closed the capture stream, no worker
\* is in the middle of a read of it, none begins one, and none schedules
\* another update_display.
C13_NothingAfterClose ==
    [][stream' = "closed" =>
          /\ \A w \in Workers : worker'[w] # "reading"
          /\ stream = "closed" =>
                \A w \in Workers :
                    /\ ~(worker[w] = "calling" /\ worker'[w] # "calling")
                    /\ ~(worker[w] = "handoff" /\ worker'[w] = "test")]_vars

====
